---- MODULE Spec2Model ----
(***************************************************************************)
(* Interference reference model of the Spectrum Access System harness      *)
(* (src/harness/reference_models/interference/interference.py).            *)
(*                                                                         *)
(* Units.  Frequencies are counted in steps of 100 kHz (MHZ == 10 steps),  *)
(* so that every frequency the code compares is an integer and the 0.1 MHz *)
(* cases of the mask are representable.  Decibel quantities (EIRP, gains,  *)
(* losses) are counted in tenths of a dB, heights in tenths of a metre,    *)
(* distances in km.  These are all values a Python float holds exactly, so *)
(* the comparisons of the code are the comparisons of the model.           *)
(*                                                                         *)
(* 10*log10(x) and 10**(x/10) are not computable on integers: the model    *)
(* keeps them as symbolic terms (LinearToDb, DbToLinear) and a dB value is *)
(* a record [tenths, logs]: a rational part plus a list of signed          *)
(* 10*log10(num/den) terms.                                                *)
(***************************************************************************)
EXTENDS Integers, Sequences, FiniteSets, TLC

VARIABLES grants,      \* the list of CbsdGrantInformation the caller holds
          constraint,  \* the ProtectionConstraint the caller holds
          distTable,   \* the module-level dict _DISTANCE_PER_PROTECTION_TYPE
          last,        \* the function of the module called last ("" before any)
          result,      \* [raised, value] of the last call
          calls,       \* the functions the last call invoked, in order
          sas_uut_fad, \* getCbsdRecords() of the FAD object of the SAS UUT
          sas_th_fads  \* getCbsdRecords() of each test-harness FAD object

vars ==
  <<grants, constraint, distTable, last, result, calls, sas_uut_fad, sas_th_fads>>

(***************************************************************************)
(* Module-level constants                                                  *)
(***************************************************************************)
GWPZ_NEIGHBORHOOD_DIST == 40
PPA_NEIGHBORHOOD_DIST == 40
FSS_CO_CHANNEL_NEIGHBORHOOD_DIST == 150
FSS_BLOCKING_NEIGHBORHOOD_DIST == 40
ESC_NEIGHBORHOOD_DIST_A == 40
ESC_NEIGHBORHOOD_DIST_B == 80

\* One MHz, in 100 kHz steps
MHZ == 10

\* 3625.0 MHz, in 100 kHz steps
FREQ_PROP_MODEL_MHZ == 36250

CBRS_LOW_FREQ_HZ == 3550 * MHZ
CBRS_HIGH_FREQ_HZ == 3700 * MHZ
ESC_CAT_A_HIGH_FREQ_HZ == 3660 * MHZ
IAPBW_HZ == 5 * MHZ

\* 1.5 m, in tenths of a metre
GWPZ_PPA_HEIGHT == 15

\* 0.5 dB, in tenths of a dB
IN_BAND_INSERTION_LOSS == 5

ProtectedEntityType ==
  {"GWPZ_AREA", "PPA_AREA", "FSS_CO_CHANNEL", "FSS_BLOCKING", "ESC"}

\* The table with the two ESC radii in the wrong order
DistanceTableEscSwapped ==
  [t \in ProtectedEntityType |->
     CASE t = "GWPZ_AREA" -> <<GWPZ_NEIGHBORHOOD_DIST, GWPZ_NEIGHBORHOOD_DIST>>
       [] t = "PPA_AREA" -> <<PPA_NEIGHBORHOOD_DIST, PPA_NEIGHBORHOOD_DIST>>
       [] t = "FSS_CO_CHANNEL" -> <<FSS_CO_CHANNEL_NEIGHBORHOOD_DIST,
                                    FSS_CO_CHANNEL_NEIGHBORHOOD_DIST>>
       [] t = "FSS_BLOCKING" -> <<FSS_BLOCKING_NEIGHBORHOOD_DIST,
                                  FSS_BLOCKING_NEIGHBORHOOD_DIST>>
       [] t = "ESC" -> <<ESC_NEIGHBORHOOD_DIST_B, ESC_NEIGHBORHOOD_DIST_A>>]

\* _DISTANCE_PER_PROTECTION_TYPE: entity type -> (radius for A, radius for B).
\* A Python tuple t is indexed t[False] = t[0], t[True] = t[1]; here 1 and 2.
DISTANCE_PER_PROTECTION_TYPE ==
  [t \in ProtectedEntityType |->
     CASE t = "GWPZ_AREA" -> <<GWPZ_NEIGHBORHOOD_DIST, GWPZ_NEIGHBORHOOD_DIST>>
       [] t = "PPA_AREA" -> <<PPA_NEIGHBORHOOD_DIST, PPA_NEIGHBORHOOD_DIST>>
       [] t = "FSS_CO_CHANNEL" -> <<FSS_CO_CHANNEL_NEIGHBORHOOD_DIST,
                                    FSS_CO_CHANNEL_NEIGHBORHOOD_DIST>>
       [] t = "FSS_BLOCKING" -> <<FSS_BLOCKING_NEIGHBORHOOD_DIST,
                                  FSS_BLOCKING_NEIGHBORHOOD_DIST>>
       [] t = "ESC" -> <<ESC_NEIGHBORHOOD_DIST_A, ESC_NEIGHBORHOOD_DIST_B>>]

CbsdGrantInformation(lat, lon, cat, low, high) ==
  [latitude |-> lat, longitude |-> lon, height_agl |-> 60,
   indoor_deployment |-> FALSE, antenna_azimuth |-> 0, antenna_gain |-> 60,
   antenna_beamwidth |-> 360, cbsd_category |-> cat, max_eirp |-> 300,
   low_frequency |-> low, high_frequency |-> high, is_managed_grant |-> TRUE]

ProtectionConstraint(lat, lon, low, high, type) ==
  [latitude |-> lat, longitude |-> lon, low_frequency |-> low,
   high_frequency |-> high, entity_type |-> type]

(***************************************************************************)
(* Helpers                                                                 *)
(***************************************************************************)
Min(a, b) == IF a < b THEN a ELSE b
Max(a, b) == IF a > b THEN a ELSE b
Abs(a) == IF a < 0 THEN -a ELSE a

\* Arange rounding the number of values down: a last partial step is lost
ArangeFloor(start, stop, step) ==
  LET n == IF stop > start THEN (stop - start) \div step ELSE 0
  IN  [i \in 1..n |-> start + (i - 1) * step]

\* numpy.arange(start, stop, step), step > 0: ceil((stop - start) / step)
\* values start, start + step, ..., all below stop.
Arange(start, stop, step) ==
  LET n == IF stop > start THEN (stop - start + step - 1) \div step ELSE 0
  IN  [i \in 1..n |-> start + (i - 1) * step]

(***************************************************************************)
(* getProtectedChannels                                                    *)
(***************************************************************************)
\* getProtectedChannels cutting each channel at the clipped high edge
GetProtectedChannelsClipped(low_freq_hz, high_freq_hz) ==
  IF ~(low_freq_hz < high_freq_hz)
  THEN [raised |-> "AssertionError", value |-> <<>>]
  ELSE LET stop == Min(high_freq_hz, 3700 * MHZ)
           channels == Arange(Max(low_freq_hz, 3550 * MHZ), stop, 5 * MHZ)
       IN  [raised |-> "",
            value |-> [i \in 1..Len(channels) |->
                         <<channels[i], Min(channels[i] + 5 * MHZ, stop)>>]]

GetProtectedChannels(low_freq_hz, high_freq_hz) ==
  IF ~(low_freq_hz < high_freq_hz)
  THEN [raised |-> "AssertionError", value |-> <<>>]
  ELSE LET channels == Arange(Max(low_freq_hz, 3550 * MHZ),
                              Min(high_freq_hz, 3700 * MHZ), 5 * MHZ)
       IN  [raised |-> "",
            value |-> [i \in 1..Len(channels) |->
                         <<channels[i], channels[i] + 5 * MHZ>>]]

(***************************************************************************)
(* findGrantsInsideNeighborhood                                            *)
(***************************************************************************)
\* vincenty.GeodesicDistanceBearing(lat1, lon1, lat2, lon2) ->
\* (km, bearing, reverse bearing).  Positions are points of a 1 km grid and
\* the distance is the number of grid steps between them.
GeodesicDistanceBearing(lat1, lon1, lat2, lon2) ==
  <<Abs(lat1 - lat2) + Abs(lon1 - lon2), 0, 0>>

\* The neighborhood loop with the radius itself left out (< for <=)
RECURSIVE NeighborhoodLoopStrict(_, _, _, _, _)
NeighborhoodLoopStrict(gs, protection_point, entity_type, i, grants_inside) ==
  IF i > Len(gs) THEN grants_inside
  ELSE LET grant == gs[i]
           dist_km == GeodesicDistanceBearing(grant.latitude, grant.longitude,
                        protection_point[1], protection_point[2])[1]
           radius == distTable[entity_type]
                       [IF grant.cbsd_category = "B" THEN 2 ELSE 1]
       IN  NeighborhoodLoopStrict(gs, protection_point, entity_type, i + 1,
             IF dist_km < radius THEN Append(grants_inside, grant)
                                 ELSE grants_inside)

RECURSIVE NeighborhoodLoop(_, _, _, _, _)
NeighborhoodLoop(gs, protection_point, entity_type, i, grants_inside) ==
  IF i > Len(gs) THEN grants_inside
  ELSE LET grant == gs[i]
           dist_km == GeodesicDistanceBearing(grant.latitude, grant.longitude,
                        protection_point[1], protection_point[2])[1]
           radius == distTable[entity_type]
                       [IF grant.cbsd_category = "B" THEN 2 ELSE 1]
       IN  NeighborhoodLoop(gs, protection_point, entity_type, i + 1,
             IF dist_km <= radius THEN Append(grants_inside, grant)
                                  ELSE grants_inside)

\* The table lookup of the first grant raises KeyError for an entity type
\* that is not a key of the table; an empty list never reaches the lookup.
FindGrantsInsideNeighborhood(gs, protection_point, entity_type) ==
  IF gs # <<>> /\ entity_type \notin DOMAIN distTable
  THEN [raised |-> "KeyError", value |-> <<>>]
  ELSE [raised |-> "",
        value |-> NeighborhoodLoop(gs, protection_point, entity_type, 1, <<>>)]

(***************************************************************************)
(* findOverlappingGrants                                                   *)
(***************************************************************************)
\* Python's == between two objects: an Enum member and a tuple are of
\* different types and never compare equal.
PyObject(type, val) == [type |-> type, val |-> val]
PyEquals(x, y) == IF x.type # y.type THEN FALSE ELSE x.val = y.val

\* The overlap loop letting a grant that only touches the constraint in
RECURSIVE OverlappingLoopTouching(_, _, _, _)
OverlappingLoopTouching(gs, c, i, grants_inside) ==
  IF i > Len(gs) THEN grants_inside
  ELSE LET grant == gs[i]
           overlapping_bw == Min(grant.high_frequency, c.high_frequency)
                               - Max(grant.low_frequency, c.low_frequency)
       IN  OverlappingLoopTouching(gs, c, i + 1,
             IF overlapping_bw >= 0 THEN Append(grants_inside, grant)
                                    ELSE grants_inside)

RECURSIVE OverlappingLoop(_, _, _, _)
OverlappingLoop(gs, c, i, grants_inside) ==
  IF i > Len(gs) THEN grants_inside
  ELSE LET grant == gs[i]
           overlapping_bw == Min(grant.high_frequency, c.high_frequency)
                               - Max(grant.low_frequency, c.low_frequency)
           freq_check0 == (overlapping_bw > 0)
           freq_check ==
             IF PyEquals(PyObject("ProtectedEntityType", "ESC"),
                         PyObject("tuple", distTable[c.entity_type]))
             THEN IF grant.cbsd_category = "A"
                     /\ c.high_frequency > ESC_CAT_A_HIGH_FREQ_HZ
                  THEN FALSE ELSE freq_check0
             ELSE freq_check0
       IN  OverlappingLoop(gs, c, i + 1,
             IF freq_check THEN Append(grants_inside, grant)
                           ELSE grants_inside)

\* The table lookup of the ESC comparison raises KeyError for an entity
\* type that is not a key of the table; an empty list never reaches it.
FindOverlappingGrants(gs, c) ==
  IF gs # <<>> /\ c.entity_type \notin DOMAIN distTable
  THEN [raised |-> "KeyError", value |-> <<>>]
  ELSE [raised |-> "", value |-> OverlappingLoop(gs, c, 1, <<>>)]

(***************************************************************************)
(* dB arithmetic                                                           *)
(***************************************************************************)
DbConst(t) == [tenths |-> t, logs |-> <<>>]
DbAdd(a, b) == [tenths |-> a.tenths + b.tenths, logs |-> a.logs \o b.logs]
DbNeg(a) ==
  [tenths |-> 0 - a.tenths,
   logs |-> [i \in 1..Len(a.logs) |-> [a.logs[i] EXCEPT !.sign = 0 - @]]]
DbSub(a, b) == DbAdd(a, DbNeg(b))

\* dbToLinear(x) = 10**(x / 10)
DbToLinear(x) == [base |-> 10, exponent_times_10 |-> x]

RECURSIVE Gcd(_, _)
Gcd(a, b) == IF b = 0 THEN a ELSE Gcd(b, a % b)

\* linearToDb(x) = 10 * log10(x), for x = num / den > 0, kept in lowest terms
LinearToDb(num, den) ==
  LET d == Gcd(num, den)
  IN  [tenths |-> 0,
       logs |-> <<[sign |-> 1, num |-> num \div d, den |-> den \div d]>>]

(***************************************************************************)
(* getFssMaskLoss                                                          *)
(***************************************************************************)
GetFssMaskLoss(cbsd_grant, c) ==
  LET offset == c.low_frequency - 50 * MHZ
      cbsd_freq_range == cbsd_grant.high_frequency - cbsd_grant.low_frequency
  IN  IF c.low_frequency < cbsd_grant.low_frequency
         /\ c.low_frequency < cbsd_grant.high_frequency
      THEN DbConst(5)
      ELSE IF cbsd_grant.low_frequency < offset
              /\ cbsd_grant.high_frequency < offset
      THEN LinearToDb(cbsd_freq_range * 25, MHZ * 100)
      ELSE IF cbsd_grant.low_frequency < offset
              /\ cbsd_grant.high_frequency > offset
      THEN DbAdd(LinearToDb((offset - cbsd_grant.low_frequency) * 25, MHZ * 100),
                 LinearToDb((cbsd_grant.high_frequency - offset) * 6, MHZ * 10))
      ELSE IF c.low_frequency > cbsd_grant.low_frequency
              /\ c.low_frequency > cbsd_grant.high_frequency
              /\ cbsd_grant.low_frequency > offset
              /\ cbsd_grant.high_frequency > offset
      THEN LinearToDb(cbsd_freq_range * 6, MHZ * 10)
      ELSE DbConst(0)

(***************************************************************************)
(* The interference formulas.  env holds what the collaborators return to  *)
(* this call: the propagation model's (db_loss, incidence_angles), the     *)
(* CBSD antenna gain and the incumbent's receive antenna gain.  Each       *)
(* formula yields its dB value and the calls it made, in order.            *)
(***************************************************************************)
Call(fn, args, ret) == [fn |-> fn, args |-> args, ret |-> ret]

IncidenceAngles(hor_cbsd, ver_cbsd, hor_rx, ver_rx) ==
  [hor_cbsd |-> hor_cbsd, ver_cbsd |-> ver_cbsd,
   hor_rx |-> hor_rx, ver_rx |-> ver_rx]

\* The collaborator calls of the formulas, with what env returns to each
CalcItmPropagationLoss(cbsd_grant, c, h_rx, env) ==
  Call("CalcItmPropagationLoss",
       <<cbsd_grant.latitude, cbsd_grant.longitude, cbsd_grant.height_agl,
         c.latitude, c.longitude, h_rx, cbsd_grant.indoor_deployment, -1,
         FREQ_PROP_MODEL_MHZ>>,
       <<env.db_loss, env.incidence_angles>>)

CalcHybridPropagationLoss(cbsd_grant, c, h_inc_ant, region, env) ==
  Call("CalcHybridPropagationLoss",
       <<cbsd_grant.latitude, cbsd_grant.longitude, cbsd_grant.height_agl,
         c.latitude, c.longitude, h_inc_ant, cbsd_grant.indoor_deployment, -1,
         FREQ_PROP_MODEL_MHZ, region>>,
       <<env.db_loss, env.incidence_angles>>)

GetStandardAntennaGains(incidence_angles, cbsd_grant, env) ==
  Call("GetStandardAntennaGains",
       <<incidence_angles.hor_cbsd, cbsd_grant.antenna_azimuth,
         cbsd_grant.antenna_beamwidth, cbsd_grant.antenna_gain>>,
       env.ant_gain)

GetAntennaPatternGains(incidence_angles, esc_antenna_info, env) ==
  Call("GetAntennaPatternGains",
       <<incidence_angles.hor_rx, esc_antenna_info.antenna_azimuth,
         esc_antenna_info.antenna_pattern_gain, esc_antenna_info.antenna_gain>>,
       env.rx_gain)

GetFssAntennaGains(incidence_angles, fss_info, env) ==
  Call("GetFssAntennaGains",
       <<incidence_angles.hor_rx, incidence_angles.ver_rx,
         fss_info.pointing_azimuth, fss_info.pointing_elevation,
         fss_info.max_gain_dbi>>,
       env.rx_gain)

\* The effective EIRP with max_eirp and the nominal gain exchanged
GetEffectiveSystemEirpExchanged(max_eirp, cbsd_max_ant_gain, effective_ant_gain, reference_bandwidth) ==
  DbAdd(DbConst((cbsd_max_ant_gain - max_eirp) + effective_ant_gain),
        LinearToDb(reference_bandwidth, MHZ))

GetEffectiveSystemEirp(max_eirp, cbsd_max_ant_gain, effective_ant_gain, reference_bandwidth) ==
  DbAdd(DbConst((max_eirp - cbsd_max_ant_gain) + effective_ant_gain),
        LinearToDb(reference_bandwidth, MHZ))

EirpCall(max_eirp, cbsd_max_ant_gain, effective_ant_gain, reference_bandwidth) ==
  Call("getEffectiveSystemEirp",
       <<max_eirp, cbsd_max_ant_gain, effective_ant_gain, reference_bandwidth>>,
       GetEffectiveSystemEirp(max_eirp, cbsd_max_ant_gain, effective_ant_gain,
                              reference_bandwidth))

\* The area-point formula taking equal latitudes alone for co-location
ComputeInterferencePpaGwpzPointSameLatitude(cbsd_grant, c, h_inc_ant, max_eirp, region, env) ==
  LET colocated == (cbsd_grant.latitude = c.latitude)
      prop == CalcHybridPropagationLoss(cbsd_grant, c, h_inc_ant, region, env)
      db_loss == IF colocated THEN 0 ELSE prop.ret[1]
      incidence_angles == IF colocated THEN IncidenceAngles(0, 0, 0, 0)
                                       ELSE prop.ret[2]
      ant == GetStandardAntennaGains(incidence_angles, cbsd_grant, env)
      ant_gain == ant.ret
      eirp == EirpCall(max_eirp, cbsd_grant.antenna_gain, ant_gain, IAPBW_HZ)
  IN  [value |-> DbSub(eirp.ret, DbConst(db_loss)),
       calls |-> (IF colocated THEN <<>> ELSE <<prop>>) \o <<ant, eirp>>]

ComputeInterferencePpaGwpzPoint(cbsd_grant, c, h_inc_ant, max_eirp, region, env) ==
  LET colocated == (cbsd_grant.latitude = c.latitude)
                     /\ (cbsd_grant.longitude = c.longitude)
      prop == CalcHybridPropagationLoss(cbsd_grant, c, h_inc_ant, region, env)
      db_loss == IF colocated THEN 0 ELSE prop.ret[1]
      incidence_angles == IF colocated THEN IncidenceAngles(0, 0, 0, 0)
                                       ELSE prop.ret[2]
      ant == GetStandardAntennaGains(incidence_angles, cbsd_grant, env)
      ant_gain == ant.ret
      eirp == EirpCall(max_eirp, cbsd_grant.antenna_gain, ant_gain, IAPBW_HZ)
  IN  [value |-> DbSub(eirp.ret, DbConst(db_loss)),
       calls |-> (IF colocated THEN <<>> ELSE <<prop>>) \o <<ant, eirp>>]

ComputeInterferenceEsc(cbsd_grant, c, esc_antenna_info, max_eirp, env) ==
  LET prop == CalcItmPropagationLoss(cbsd_grant, c,
                                     esc_antenna_info.antenna_height, env)
      db_loss == prop.ret[1]
      incidence_angles == prop.ret[2]
      ant == GetStandardAntennaGains(incidence_angles, cbsd_grant, env)
      ant_gain == ant.ret
      esc == GetAntennaPatternGains(incidence_angles, esc_antenna_info, env)
      esc_ant_gain == esc.ret
      effective_ant_gain == ant_gain + esc_ant_gain
      eirp == EirpCall(max_eirp, cbsd_grant.antenna_gain, effective_ant_gain,
                       IAPBW_HZ)
  IN  [value |-> DbSub(DbSub(eirp.ret, DbConst(db_loss)),
                       DbConst(IN_BAND_INSERTION_LOSS)),
       calls |-> <<prop, ant, esc, eirp>>]

ComputeInterferenceFssCochannel(cbsd_grant, c, fss_info, max_eirp, env) ==
  LET prop == CalcItmPropagationLoss(cbsd_grant, c, fss_info.height_agl, env)
      db_loss == prop.ret[1]
      incidence_angles == prop.ret[2]
      ant == GetStandardAntennaGains(incidence_angles, cbsd_grant, env)
      ant_gain == ant.ret
      fss == GetFssAntennaGains(incidence_angles, fss_info, env)
      fss_ant_gain == fss.ret
      effective_ant_gain == ant_gain + fss_ant_gain
      eirp == EirpCall(max_eirp, cbsd_grant.antenna_gain, effective_ant_gain,
                       IAPBW_HZ)
  IN  [value |-> DbSub(DbSub(eirp.ret, DbConst(db_loss)),
                       DbConst(IN_BAND_INSERTION_LOSS)),
       calls |-> <<prop, ant, fss, eirp>>]

\* The blocking formula keeping the default 5 MHz reference bandwidth
ComputeInterferenceFssBlockingDefaultBandwidth(cbsd_grant, c, fss_info, max_eirp, env) ==
  LET prop == CalcItmPropagationLoss(cbsd_grant, c, fss_info.height_agl, env)
      db_loss == prop.ret[1]
      incidence_angles == prop.ret[2]
      ant == GetStandardAntennaGains(incidence_angles, cbsd_grant, env)
      ant_gain == ant.ret
      fss == GetFssAntennaGains(incidence_angles, fss_info, env)
      fss_ant_gain == fss.ret
      effective_ant_gain == ant_gain + fss_ant_gain
      eirp == EirpCall(max_eirp, cbsd_grant.antenna_gain, effective_ant_gain,
                       IAPBW_HZ)
      mask == Call("getFssMaskLoss", <<cbsd_grant, c>>,
                   GetFssMaskLoss(cbsd_grant, c))
  IN  [value |-> DbSub(DbSub(eirp.ret, mask.ret), DbConst(db_loss)),
       calls |-> <<prop, ant, fss, eirp, mask>>]

ComputeInterferenceFssBlocking(cbsd_grant, c, fss_info, max_eirp, env) ==
  LET prop == CalcItmPropagationLoss(cbsd_grant, c, fss_info.height_agl, env)
      db_loss == prop.ret[1]
      incidence_angles == prop.ret[2]
      ant == GetStandardAntennaGains(incidence_angles, cbsd_grant, env)
      ant_gain == ant.ret
      fss == GetFssAntennaGains(incidence_angles, fss_info, env)
      fss_ant_gain == fss.ret
      effective_ant_gain == ant_gain + fss_ant_gain
      eirp == EirpCall(max_eirp, cbsd_grant.antenna_gain, effective_ant_gain,
                       cbsd_grant.high_frequency - cbsd_grant.low_frequency)
      mask == Call("getFssMaskLoss", <<cbsd_grant, c>>,
                   GetFssMaskLoss(cbsd_grant, c))
  IN  [value |-> DbSub(DbSub(eirp.ret, mask.ret), DbConst(db_loss)),
       calls |-> <<prop, ant, fss, eirp, mask>>]

(***************************************************************************)
(* computeInterference                                                     *)
(***************************************************************************)
\* computeInterference sending a blocking constraint to the co-channel formula
ComputeInterferenceBlockingAsCochannel(grant, eirp, channel_constraint, fss_info, esc_antenna_info, region_type, env) ==
  LET formula ==
        IF channel_constraint.entity_type \in {"FSS_CO_CHANNEL", "FSS_BLOCKING"}
        THEN [fn |-> "computeInterferenceFssCochannel",
              args |-> <<grant, channel_constraint, fss_info, eirp>>,
              out |-> ComputeInterferenceFssCochannel(
                        grant, channel_constraint, fss_info, eirp, env)]
        ELSE IF channel_constraint.entity_type = "ESC"
        THEN [fn |-> "computeInterferenceEsc",
              args |-> <<grant, channel_constraint, esc_antenna_info, eirp>>,
              out |-> ComputeInterferenceEsc(
                        grant, channel_constraint, esc_antenna_info, eirp, env)]
        ELSE [fn |-> "computeInterferencePpaGwpzPoint",
              args |-> <<grant, channel_constraint, GWPZ_PPA_HEIGHT, eirp,
                         region_type>>,
              out |-> ComputeInterferencePpaGwpzPoint(
                        grant, channel_constraint, GWPZ_PPA_HEIGHT, eirp,
                        region_type, env)]
  IN  [raised |-> "",
       value |-> DbToLinear(formula.out.value),
       calls |-> <<Call(formula.fn, formula.args, formula.out.value)>>
                   \o formula.out.calls]

ComputeInterference(grant, eirp, channel_constraint, fss_info, esc_antenna_info, region_type, env) ==
  LET formula ==
        IF channel_constraint.entity_type = "FSS_CO_CHANNEL"
        THEN [fn |-> "computeInterferenceFssCochannel",
              args |-> <<grant, channel_constraint, fss_info, eirp>>,
              out |-> ComputeInterferenceFssCochannel(
                        grant, channel_constraint, fss_info, eirp, env)]
        ELSE IF channel_constraint.entity_type = "FSS_BLOCKING"
        THEN [fn |-> "computeInterferenceFssBlocking",
              args |-> <<grant, channel_constraint, fss_info, eirp>>,
              out |-> ComputeInterferenceFssBlocking(
                        grant, channel_constraint, fss_info, eirp, env)]
        ELSE IF channel_constraint.entity_type = "ESC"
        THEN [fn |-> "computeInterferenceEsc",
              args |-> <<grant, channel_constraint, esc_antenna_info, eirp>>,
              out |-> ComputeInterferenceEsc(
                        grant, channel_constraint, esc_antenna_info, eirp, env)]
        ELSE [fn |-> "computeInterferencePpaGwpzPoint",
              args |-> <<grant, channel_constraint, GWPZ_PPA_HEIGHT, eirp,
                         region_type>>,
              out |-> ComputeInterferencePpaGwpzPoint(
                        grant, channel_constraint, GWPZ_PPA_HEIGHT, eirp,
                        region_type, env)]
  IN  [raised |-> "",
       value |-> DbToLinear(formula.out.value),
       calls |-> <<Call(formula.fn, formula.args, formula.out.value)>>
                   \o formula.out.calls]

(***************************************************************************)
(* getAllGrantInformationFromCbsdDataDump, getGrantObjectsFromFAD          *)
(***************************************************************************)
\* terrainDriver.GetTerrainElevation: the ground elevation at a position, in
\* tenths of a metre
GetTerrainElevation(lat, lon) == 1000 * lat + 10 * lon

\* The CbsdGrantInformation built for one grant of one record
GrantOfRecord(registration, height_cbsd, grant, is_managing_sas) ==
  [latitude |-> registration.installationParam.latitude,
   longitude |-> registration.installationParam.longitude,
   height_agl |-> height_cbsd,
   indoor_deployment |-> registration.installationParam.indoorDeployment,
   antenna_azimuth |-> registration.installationParam.antennaAzimuth,
   antenna_gain |-> registration.installationParam.antennaGain,
   antenna_beamwidth |-> registration.installationParam.antennaBeamwidth,
   cbsd_category |-> registration.cbsdCategory,
   max_eirp |-> grant.operationParam.maxEirp,
   low_frequency |->
     grant.operationParam.operationFrequencyRange.lowFrequency,
   high_frequency |->
     grant.operationParam.operationFrequencyRange.highFrequency,
   is_managed_grant |-> is_managing_sas]

\* The height checked and stored for a record: the declared height, less the
\* terrain elevation when the height type is AMSL
HeightCbsd(registration) ==
  LET param == registration.installationParam
  IN  IF param.heightType = "AMSL"
      THEN param.height - GetTerrainElevation(param.latitude, param.longitude)
      ELSE param.height

\* The record loop rejecting the two limits themselves
RECURSIVE RecordLoopExclusive(_, _, _, _)
RecordLoopExclusive(cbsd_data_records, is_managing_sas, i, grant_objects) ==
  IF i > Len(cbsd_data_records) THEN [raised |-> "", value |-> grant_objects]
  ELSE LET registration == cbsd_data_records[i].registrationRequest
           gs == cbsd_data_records[i].grants
           height_cbsd == HeightCbsd(registration)
       IN  IF height_cbsd <= 10 \/ height_cbsd >= 10000
           THEN [raised |-> "ValueError", value |-> <<>>]
           ELSE RecordLoopExclusive(cbsd_data_records, is_managing_sas, i + 1,
                  grant_objects \o
                    [j \in 1..Len(gs) |->
                       GrantOfRecord(registration, height_cbsd, gs[j],
                                     is_managing_sas)])

\* The record loop: 10 and 10000 are 1 m and 1000 m in tenths of a metre
RECURSIVE RecordLoop(_, _, _, _)
RecordLoop(cbsd_data_records, is_managing_sas, i, grant_objects) ==
  IF i > Len(cbsd_data_records) THEN [raised |-> "", value |-> grant_objects]
  ELSE LET registration == cbsd_data_records[i].registrationRequest
           gs == cbsd_data_records[i].grants
           height_cbsd == HeightCbsd(registration)
       IN  IF height_cbsd < 10 \/ height_cbsd > 10000
           THEN [raised |-> "ValueError", value |-> <<>>]
           ELSE RecordLoop(cbsd_data_records, is_managing_sas, i + 1,
                  grant_objects \o
                    [j \in 1..Len(gs) |->
                       GrantOfRecord(registration, height_cbsd, gs[j],
                                     is_managing_sas)])

GetAllGrantInformationFromCbsdDataDump(cbsd_data_records, is_managing_sas) ==
  RecordLoop(cbsd_data_records, is_managing_sas, 1, <<>>)

\* The records the two nested loops over the test-harness FAD objects
\* append to cbsd_list_th, in order
RECURSIVE CbsdListTh(_)
CbsdListTh(fads) ==
  IF fads = <<>> THEN <<>> ELSE Head(fads) \o CbsdListTh(Tail(fads))

\* The body of the inner loop, once per appended record: the extraction runs
\* over the list so far and binds grant_objects_test_harness. The name is
\* bound only once the body has run.
RECURSIVE TestHarnessLoop(_, _, _)
TestHarnessLoop(cbsd_list_th, k, harness) ==
  IF k > Len(cbsd_list_th) THEN harness
  ELSE LET out == GetAllGrantInformationFromCbsdDataDump(
                    SubSeq(cbsd_list_th, 1, k), FALSE)
       IN  IF out.raised # ""
           THEN [raised |-> out.raised, bound |-> harness.bound,
                 value |-> <<>>]
           ELSE TestHarnessLoop(cbsd_list_th, k + 1,
                  [raised |-> "", bound |-> TRUE, value |-> out.value])

GetGrantObjectsFromFAD(uut_fad, th_fads) ==
  LET grant_objects_uut == GetAllGrantInformationFromCbsdDataDump(uut_fad, TRUE)
      harness == TestHarnessLoop(CbsdListTh(th_fads), 1,
                   [raised |-> "", bound |-> FALSE, value |-> <<>>])
  IN  IF grant_objects_uut.raised # ""
      THEN [raised |-> grant_objects_uut.raised, value |-> <<>>]
      ELSE IF harness.raised # ""
      THEN [raised |-> harness.raised, value |-> <<>>]
      ELSE IF ~harness.bound
      THEN [raised |-> "UnboundLocalError", value |-> <<>>]
      ELSE [raised |-> "", value |-> grant_objects_uut.value \o harness.value]

(***************************************************************************)
(* Inputs                                                                  *)
(***************************************************************************)
\* Longest grant list a caller passes
MaxGrants == 2

BoundedSeq(S, n) == UNION {[1..k -> S] : k \in 0..n}

Categories == {"A", "B"}

\* Channelizer cases: band edges, unaligned edges, ranges outside the band
ChannelEdges ==
  {3540 * MHZ, 3550 * MHZ, 3552 * MHZ, 3560 * MHZ, 3697 * MHZ,
   3700 * MHZ, 3701 * MHZ, 3705 * MHZ, 35601}

ChannelInputs ==
  {<<g, ProtectionConstraint(0, 0, lo, hi, "PPA_AREA")>> :
     g \in {<<>>}, lo \in ChannelEdges, hi \in ChannelEdges}

\* Neighborhood cases: grants on and just beyond each radius of the entity
\* type's row of the table
NeighborhoodLatitudes(t) ==
  IF t = "ESC" THEN {40, 41, 80, 81}
  ELSE IF t = "FSS_CO_CHANNEL" THEN {150, 151}
  ELSE {40, 41}

NeighborhoodGrants(t) ==
  {CbsdGrantInformation(lat, 0, cat, 3600 * MHZ, 3610 * MHZ) :
     lat \in NeighborhoodLatitudes(t), cat \in Categories}

NeighborhoodInputs ==
  UNION {{<<gs, ProtectionConstraint(0, 0, 3600 * MHZ, 3605 * MHZ, t)>> :
            gs \in BoundedSeq(NeighborhoodGrants(t), MaxGrants)} :
         t \in ProtectedEntityType}

\* Overlap cases: grants apart from, touching and inside the constraint,
\* constraints ending at and above the ESC category-A ceiling
OverlapGrantRanges ==
  {<<3640 * MHZ, 3650 * MHZ>>, <<3650 * MHZ, 3660 * MHZ>>,
   <<3660 * MHZ, 3670 * MHZ>>}

OverlapGrants ==
  {CbsdGrantInformation(10, 0, cat, r[1], r[2]) :
     cat \in Categories, r \in OverlapGrantRanges}

OverlapConstraintRanges ==
  {<<3655 * MHZ, 3660 * MHZ>>, <<3660 * MHZ, 3665 * MHZ>>}

OverlapInputs ==
  {<<gs, ProtectionConstraint(0, 0, r[1], r[2], t)>> :
     gs \in BoundedSeq(OverlapGrants, MaxGrants),
     r \in OverlapConstraintRanges, t \in ProtectedEntityType}

\* Mask cases: grant edges on, 0.1 MHz off and well off the 50 MHz offset
\* (3650 MHz) and the passband low edge (3700 MHz) of a blocking constraint
MaskEdges ==
  {3640 * MHZ, 36499, 3650 * MHZ, 36501, 3660 * MHZ,
   36999, 3700 * MHZ, 37001, 3710 * MHZ}

MaskGrants ==
  {CbsdGrantInformation(10, 0, "A", r[1], r[2]) :
     r \in {e \in MaskEdges \X MaskEdges : e[1] < e[2]}}

MaskInputs ==
  {<<<<g>>, ProtectionConstraint(0, 0, 3700 * MHZ, 4200 * MHZ, "FSS_BLOCKING")>> :
     g \in MaskGrants}

\* Interference cases: a grant at the protection point or off it in
\* latitude or in longitude, against each entity type
InterferenceGrants ==
  {CbsdGrantInformation(p[1], p[2], "B", 3640 * MHZ, 3660 * MHZ) :
     p \in {<<0, 0>>, <<10, 0>>, <<0, 3>>}}

InterferenceInputs ==
  {<<<<g>>, ProtectionConstraint(0, 0, lo, lo + 5 * MHZ, t)>> :
     g \in InterferenceGrants, lo \in {3650 * MHZ, 3700 * MHZ},
     t \in ProtectedEntityType}

\* Entity types a caller can put in a constraint beside the enum members:
\* None, or a member name that does not exist
UnknownEntityTypes == {"None", "DPA"}

\* Unknown-type cases: a constraint of no known entity type, with no grant
\* or with one grant at or off the protection point
UnknownTypeInputs ==
  {<<gs, ProtectionConstraint(0, 0, 3650 * MHZ, 3655 * MHZ, t)>> :
     gs \in {<<>>} \cup {<<g>> : g \in InterferenceGrants},
     t \in UnknownEntityTypes}

\* Categories a registration can carry beside 'A' and 'B': absent (None),
\* or any other string
UnknownCategories == {"None", "C"}

\* Unknown-category cases: one grant of no known category between the two
\* ESC radii or inside both, against an ESC constraint ending at or above
\* the category-A ceiling and against an area constraint
UnknownCategoryGrants ==
  {CbsdGrantInformation(lat, 0, cat, 3650 * MHZ, 3670 * MHZ) :
     lat \in {40, 41}, cat \in UnknownCategories}

UnknownCategoryInputs ==
  {<<<<g>>, ProtectionConstraint(0, 0, r[1], r[2], t)>> :
     g \in UnknownCategoryGrants, r \in OverlapConstraintRanges,
     t \in {"ESC", "PPA_AREA"}}

Inputs ==
  ChannelInputs \cup NeighborhoodInputs \cup OverlapInputs
    \cup MaskInputs \cup InterferenceInputs
    \cup UnknownTypeInputs \cup UnknownCategoryInputs

\* The incumbent records a caller passes to computeInterference
FssProtectionPoint ==
  [latitude |-> 0, longitude |-> 0, height_agl |-> 70, max_gain_dbi |-> 320,
   pointing_azimuth |-> 180, pointing_elevation |-> 30]

EscInformation ==
  [antenna_height |-> 250, antenna_azimuth |-> 90, antenna_gain |-> 0,
   antenna_pattern_gain |-> <<0, -10, -20>>]

\* What the propagation and antenna collaborators return to one call
CollaboratorOutputs ==
  {[db_loss |-> 1200, incidence_angles |-> IncidenceAngles(30, 1, 210, -1),
    ant_gain |-> 40, rx_gain |-> 70],
   [db_loss |-> 1415, incidence_angles |-> IncidenceAngles(75, 2, 255, -2),
    ant_gain |-> -25, rx_gain |-> 110]}

\* (eirp, region_type, collaborator outputs) of a computeInterference call
InterferenceArgs ==
  {<<200, "SUBURBAN", e>> : e \in CollaboratorOutputs}
    \cup {<<300, "RURAL", e>> : e \in CollaboratorOutputs}

\* Longest list of CBSD records of the SAS UUT, in the height cases
MaxRecords == 2

\* Most test-harness FAD objects a caller passes
MaxFads == 2

\* A grant of a CBSD record and a CBSD record, as the FAD object holds them
GrantData(low, high) ==
  [operationParam |->
     [maxEirp |-> 300,
      operationFrequencyRange |-> [lowFrequency |-> low,
                                   highFrequency |-> high]]]

CbsdData(lat, height, height_type, gs) ==
  [registrationRequest |->
     [installationParam |->
        [latitude |-> lat, longitude |-> 0, height |-> height,
         heightType |-> height_type, indoorDeployment |-> FALSE,
         antennaAzimuth |-> 0, antennaGain |-> 60, antennaBeamwidth |-> 360],
      cbsdCategory |-> "A"],
   grants |-> gs]

\* Height cases: 0.1 m below, on and 0.1 m above each limit, declared above
\* ground, and declared above sea level where the ground is at 200 m
HeightRecords ==
  {CbsdData(2, h, "AGL", <<GrantData(3600 * MHZ, 3610 * MHZ)>>) :
     h \in {9, 10, 10000, 10001}}
  \cup {CbsdData(2, h, "AMSL", <<GrantData(3600 * MHZ, 3610 * MHZ)>>) :
          h \in {2009, 2010, 12000, 12001}}

HeightInputs ==
  {<<uut, <<>>>> : uut \in BoundedSeq(HeightRecords, MaxRecords)}

\* Frequency cases: one record whose grants have low below, equal to or
\* above high
FrequencyRanges ==
  {GrantData(3600 * MHZ, 3610 * MHZ), GrantData(3610 * MHZ, 3610 * MHZ),
   GrantData(3620 * MHZ, 3610 * MHZ)}

FrequencyInputs ==
  {<<<<CbsdData(1, 60, "AGL", gs)>>, <<>>>> :
     gs \in BoundedSeq(FrequencyRanges, MaxGrants)}

\* FAD cases: records told apart by their latitude, with two, one and no
\* grant, and one record of a rejected height
RecordA ==
  CbsdData(1, 60, "AGL",
           <<GrantData(3600 * MHZ, 3610 * MHZ), GrantData(3620 * MHZ, 3630 * MHZ)>>)
RecordB == CbsdData(2, 70, "AGL", <<GrantData(3600 * MHZ, 3610 * MHZ)>>)
RecordC == CbsdData(3, 80, "AGL", <<>>)
RecordD ==
  CbsdData(4, 4090, "AMSL",
           <<GrantData(3650 * MHZ, 3660 * MHZ), GrantData(3660 * MHZ, 3670 * MHZ)>>)
RecordRejected == CbsdData(5, 5, "AGL", <<GrantData(3600 * MHZ, 3610 * MHZ)>>)

FadChoices == {<<>>, <<RecordB>>, <<RecordC, RecordD>>, <<RecordRejected>>}

FadInputs ==
  {<<uut, ths>> :
     uut \in {<<>>, <<RecordA>>, <<RecordB, RecordA>>,
              <<RecordA, RecordRejected>>},
     ths \in BoundedSeq(FadChoices, MaxFads)}

RecordInputs == HeightInputs \cup FrequencyInputs \cup FadInputs

Init ==
  /\ \/ /\ \E in \in Inputs : grants = in[1] /\ constraint = in[2]
        /\ sas_uut_fad = <<>>
        /\ sas_th_fads = <<>>
     \/ /\ \E in \in RecordInputs : sas_uut_fad = in[1] /\ sas_th_fads = in[2]
        /\ grants = <<>>
        /\ constraint =
             ProtectionConstraint(0, 0, 3600 * MHZ, 3610 * MHZ, "PPA_AREA")
  /\ distTable = DISTANCE_PER_PROTECTION_TYPE
  /\ last = ""
  /\ result = [raised |-> "", value |-> <<>>]
  /\ calls = <<>>

(***************************************************************************)
(* Operations                                                              *)
(***************************************************************************)
\* The vincenty calls of findGrantsInsideNeighborhood, one per grant
DistanceCalls(gs, protection_point) ==
  [i \in 1..Len(gs) |->
     Call("GeodesicDistanceBearing",
          <<gs[i].latitude, gs[i].longitude,
            protection_point[1], protection_point[2]>>,
          GeodesicDistanceBearing(gs[i].latitude, gs[i].longitude,
            protection_point[1], protection_point[2]))]

CallGetProtectedChannels ==
  LET out == GetProtectedChannels(constraint.low_frequency,
                                  constraint.high_frequency)
  IN  /\ last' = "getProtectedChannels"
      /\ result' = out
      /\ calls' = <<Call("getProtectedChannels",
                         <<constraint.low_frequency, constraint.high_frequency>>,
                         out.value)>>
      /\ UNCHANGED <<grants, constraint, distTable, sas_uut_fad, sas_th_fads>>

\* findGrantsInsideNeighborhood filtering the caller's list in place
CallFindGrantsInsideNeighborhoodInPlace ==
  LET protection_point == <<constraint.latitude, constraint.longitude>>
      out == FindGrantsInsideNeighborhood(grants, protection_point,
                                          constraint.entity_type)
  IN  /\ last' = "findGrantsInsideNeighborhood"
      /\ result' = out
      /\ calls' = <<Call("findGrantsInsideNeighborhood",
                         <<grants, protection_point, constraint.entity_type>>,
                         out.value)>>
                     \o (IF out.raised = ""
                         THEN DistanceCalls(grants, protection_point)
                         ELSE SubSeq(DistanceCalls(grants, protection_point),
                                     1, 1))
      /\ grants' = out.value
      /\ UNCHANGED <<constraint, distTable, sas_uut_fad, sas_th_fads>>

CallFindGrantsInsideNeighborhood ==
  LET protection_point == <<constraint.latitude, constraint.longitude>>
      out == FindGrantsInsideNeighborhood(grants, protection_point,
                                          constraint.entity_type)
  IN  /\ last' = "findGrantsInsideNeighborhood"
      /\ result' = out
      /\ calls' = <<Call("findGrantsInsideNeighborhood",
                         <<grants, protection_point, constraint.entity_type>>,
                         out.value)>>
                     \o (IF out.raised = ""
                         THEN DistanceCalls(grants, protection_point)
                         ELSE SubSeq(DistanceCalls(grants, protection_point),
                                     1, 1))
      /\ UNCHANGED <<grants, constraint, distTable, sas_uut_fad, sas_th_fads>>

CallFindOverlappingGrants ==
  LET out == FindOverlappingGrants(grants, constraint)
  IN  /\ last' = "findOverlappingGrants"
      /\ result' = out
      /\ calls' = <<Call("findOverlappingGrants", <<grants, constraint>>,
                         out.value)>>
      /\ UNCHANGED <<grants, constraint, distTable, sas_uut_fad, sas_th_fads>>

CallGetFssMaskLoss ==
  \E i \in 1..Len(grants) :
    LET out == GetFssMaskLoss(grants[i], constraint)
    IN  /\ last' = "getFssMaskLoss"
        /\ result' = [raised |-> "", value |-> out]
        /\ calls' = <<Call("getFssMaskLoss", <<grants[i], constraint>>, out)>>
        /\ UNCHANGED <<grants, constraint, distTable, sas_uut_fad, sas_th_fads>>

CallComputeInterference ==
  \E i \in 1..Len(grants), a \in InterferenceArgs :
    LET out == ComputeInterference(grants[i], a[1], constraint,
                 FssProtectionPoint, EscInformation, a[2], a[3])
    IN  /\ last' = "computeInterference"
        /\ result' = [raised |-> out.raised, value |-> out.value]
        /\ calls' = <<Call("computeInterference",
                           <<grants[i], a[1], constraint, FssProtectionPoint,
                             EscInformation, a[2]>>,
                           out.value)>> \o out.calls
        /\ UNCHANGED <<grants, constraint, distTable, sas_uut_fad, sas_th_fads>>

\* Whether the extraction rejects the height of a record
Rejected(cbsd_data_record) ==
  GetAllGrantInformationFromCbsdDataDump(<<cbsd_data_record>>, TRUE).raised # ""

\* How many records the extraction loop visits: up to the first rejected one
Visited(cbsd_data_records) ==
  IF \E i \in 1..Len(cbsd_data_records) : Rejected(cbsd_data_records[i])
  THEN CHOOSE i \in 1..Len(cbsd_data_records) :
         /\ Rejected(cbsd_data_records[i])
         /\ \A j \in 1..(i - 1) : ~Rejected(cbsd_data_records[j])
  ELSE Len(cbsd_data_records)

\* The terrain lookups of one extraction, one per visited AMSL record
ElevationCalls(cbsd_data_records) ==
  LET param(i) == cbsd_data_records[i].registrationRequest.installationParam
      lookup(i) == Call("GetTerrainElevation",
                        <<param(i).latitude, param(i).longitude>>,
                        GetTerrainElevation(param(i).latitude,
                                            param(i).longitude))
      amsl == SelectSeq([i \in 1..Visited(cbsd_data_records) |-> i],
                        LAMBDA i : param(i).heightType = "AMSL")
  IN  [k \in 1..Len(amsl) |-> lookup(amsl[k])]

\* The extraction calls of getGrantObjectsFromFAD: one over the UUT records,
\* then one per appended test-harness record until one raises
ExtractionCalls(uut_fad, th_fads) ==
  LET name == "getAllGrantInformationFromCbsdDataDump"
      uut == GetAllGrantInformationFromCbsdDataDump(uut_fad, TRUE)
      cbsd_list_th == CbsdListTh(th_fads)
  IN  <<Call(name, <<uut_fad, TRUE>>, uut.value)>>
        \o (IF uut.raised # "" THEN <<>>
            ELSE [k \in 1..Visited(cbsd_list_th) |->
                    Call(name, <<SubSeq(cbsd_list_th, 1, k), FALSE>>,
                         GetAllGrantInformationFromCbsdDataDump(
                           SubSeq(cbsd_list_th, 1, k), FALSE).value)])

CallGetAllGrantInformationFromCbsdDataDump ==
  \E is_managing_sas \in BOOLEAN :
    LET out == GetAllGrantInformationFromCbsdDataDump(sas_uut_fad,
                                                      is_managing_sas)
    IN  /\ last' = "getAllGrantInformationFromCbsdDataDump"
        /\ result' = out
        /\ calls' = <<Call("getAllGrantInformationFromCbsdDataDump",
                           <<sas_uut_fad, is_managing_sas>>, out.value)>>
                       \o ElevationCalls(sas_uut_fad)
        /\ UNCHANGED <<grants, constraint, distTable, sas_uut_fad, sas_th_fads>>

CallGetGrantObjectsFromFAD ==
  LET out == GetGrantObjectsFromFAD(sas_uut_fad, sas_th_fads)
  IN  /\ last' = "getGrantObjectsFromFAD"
      /\ result' = out
      /\ calls' = <<Call("getGrantObjectsFromFAD",
                         <<sas_uut_fad, sas_th_fads>>, out.value)>>
                     \o ExtractionCalls(sas_uut_fad, sas_th_fads)
      /\ UNCHANGED <<grants, constraint, distTable, sas_uut_fad, sas_th_fads>>

Next ==
  \/ CallGetProtectedChannels
  \/ CallFindGrantsInsideNeighborhood
  \/ CallFindOverlappingGrants
  \/ CallGetFssMaskLoss
  \/ CallComputeInterference
  \/ CallGetAllGrantInformationFromCbsdDataDump
  \/ CallGetGrantObjectsFromFAD

Spec == Init /\ [][Next]_vars

(***************************************************************************)
(* Properties                                                              *)
(***************************************************************************)
PositiveOverlap(g, c) ==
  Min(g.high_frequency, c.high_frequency)
    - Max(g.low_frequency, c.low_frequency) > 0

\* C1: findOverlappingGrants, for an ESC constraint whose high frequency is
\* above 3660 MHz, returns no category-A grant, and returns exactly the
\* category-B grants with positive overlap, in input order.
C1_EscExcludesCategoryA ==
  (/\ last = "findOverlappingGrants"
   /\ constraint.entity_type = "ESC"
   /\ constraint.high_frequency > 3660 * MHZ)
  => result.value =
       SelectSeq(grants, LAMBDA g : g.cbsd_category = "B"
                                     /\ PositiveOverlap(g, constraint))

ClippedLow == Max(constraint.low_frequency, 3550 * MHZ)
ClippedHigh == Min(constraint.high_frequency, 3700 * MHZ)
ChannelsReturned == last = "getProtectedChannels" /\ result.raised = ""

\* C2 as stated: for low < high no returned channel has its high edge above
\* min(high, 3700 MHz): a last partial channel ends at min(high, 3700 MHz).
C2_NoChannelAboveClippedHigh ==
  (ChannelsReturned /\ constraint.low_frequency < constraint.high_frequency)
  => \A i \in 1..Len(result.value) : result.value[i][2] <= ClippedHigh

\* C2 as amended: every returned channel, the last one included, is exactly
\* 5 MHz wide; the last channel ends at or above min(high, 3700 MHz) and
\* less than 5 MHz above it, and ends exactly there if and only if the
\* clipped range is a multiple of 5 MHz.
C2_LastChannelFullWidth ==
  (ChannelsReturned /\ Len(result.value) > 0)
  => LET v == result.value
         n == Len(v)
     IN  /\ \A i \in 1..n : v[i][2] - v[i][1] = 5 * MHZ
         /\ v[n][2] >= ClippedHigh
         /\ v[n][2] < ClippedHigh + 5 * MHZ
         /\ (v[n][2] = ClippedHigh
               <=> (ClippedHigh - ClippedLow) % (5 * MHZ) = 0)

\* C2 witness: a clipped range that is no multiple of 5 MHz was channelized
\* and its last channel reaches beyond the clipped high edge.
C2_Witness ==
  /\ ChannelsReturned
  /\ Len(result.value) > 1
  /\ (ClippedHigh - ClippedLow) % (5 * MHZ) # 0
  /\ result.value[Len(result.value)][2] > ClippedHigh

\* C3: for low < 3700 MHz, high > 3550 MHz and low < high the result is a
\* non-empty list whose first channel starts at max(low, 3550 MHz), each
\* channel starts where the previous one ends, every channel but possibly
\* the last is 5 MHz wide, and every frequency of
\* [max(low, 3550 MHz), min(high, 3700 MHz)) lies in some channel.
C3_ContiguousCover ==
  (/\ last = "getProtectedChannels"
   /\ constraint.low_frequency < 3700 * MHZ
   /\ constraint.high_frequency > 3550 * MHZ
   /\ constraint.low_frequency < constraint.high_frequency)
  => LET v == result.value
         n == Len(v)
     IN  /\ result.raised = ""
         /\ n > 0
         /\ v[1][1] = ClippedLow
         /\ \A i \in 1..(n - 1) : /\ v[i + 1][1] = v[i][2]
                                  /\ v[i][2] - v[i][1] = 5 * MHZ
         /\ \A i \in 1..n : v[i][1] < v[i][2]
         /\ \A f \in ClippedLow..(ClippedHigh - 1) :
              \E i \in 1..n : v[i][1] <= f /\ f < v[i][2]

\* C3 witness: a range reaching over both band edges and one with an
\* unaligned low edge were channelized into several channels.
C3_Witness ==
  /\ ChannelsReturned
  /\ Len(result.value) > 2
  /\ constraint.low_frequency > 3550 * MHZ
  /\ constraint.high_frequency > 3700 * MHZ
  /\ (ClippedHigh - ClippedLow) % (5 * MHZ) # 0


\* The grant and the constraint of the last getFssMaskLoss call
MaskGrant == calls[1].args[1]
MaskConstraint == calls[1].args[2]
MaskOffset == MaskConstraint.low_frequency - 50 * MHZ
MaskCalled ==
  /\ last = "getFssMaskLoss"
  /\ MaskGrant.low_frequency < MaskGrant.high_frequency

\* 10 * log10(weight * width / 1 MHz), weight in hundredths, width in steps
WeightedTerm(weight, width) == LinearToDb(weight * width, 100 * MHZ)

\* C4: getFssMaskLoss, for every grant with low_frequency < high_frequency,
\* takes one of its four branches and never returns the initial
\* placeholder 0.
C4_NeverPlaceholder ==
  MaskCalled => result.value # DbConst(0)

\* C5: getFssMaskLoss returns 0.5 dB for every grant with
\* constraint.low_frequency < grant.high_frequency, a grant that straddles
\* the passband low edge included.
C5_HalfDbWithinOrBelow ==
  (MaskCalled /\ MaskConstraint.low_frequency < MaskGrant.high_frequency)
  => result.value = DbConst(5)

\* C6: for a grant lying entirely below the passband low edge
\* (grant.high <= constraint.low), the branch follows from the grant's
\* position relative to offset = low edge - 50 MHz: entirely below the offset
\* (grant.high <= offset), the 0.25-weighted term over the grant bandwidth;
\* grant.low < offset < grant.high, the 0.25-weighted term over
\* (offset - low) plus the 0.6-weighted term over (high - offset); entirely
\* above the offset (grant.low >= offset), the 0.6-weighted term over the
\* grant bandwidth.
C6_BranchByOffset ==
  (MaskCalled /\ MaskGrant.high_frequency <= MaskConstraint.low_frequency)
  => LET lo == MaskGrant.low_frequency
         hi == MaskGrant.high_frequency
     IN  /\ hi <= MaskOffset => result.value = WeightedTerm(25, hi - lo)
         /\ (lo < MaskOffset /\ MaskOffset < hi)
              => result.value = DbAdd(WeightedTerm(25, MaskOffset - lo),
                                      WeightedTerm(60, hi - MaskOffset))
         /\ MaskOffset <= lo => result.value = WeightedTerm(60, hi - lo)

\* What holds of the mask off the boundaries: with no grant edge on the
\* offset and the grant ending strictly below the passband low edge, the
\* three branches are selected as C6 says.
MaskBranchesOffBoundary ==
  (MaskCalled /\ MaskGrant.high_frequency < MaskConstraint.low_frequency)
  => LET lo == MaskGrant.low_frequency
         hi == MaskGrant.high_frequency
     IN  /\ hi < MaskOffset => result.value = WeightedTerm(25, hi - lo)
         /\ (lo < MaskOffset /\ MaskOffset < hi)
              => result.value = DbAdd(WeightedTerm(25, MaskOffset - lo),
                                      WeightedTerm(60, hi - MaskOffset))
         /\ MaskOffset < lo => result.value = WeightedTerm(60, hi - lo)

DistanceTo(g) ==
  GeodesicDistanceBearing(g.latitude, g.longitude,
                          constraint.latitude, constraint.longitude)[1]

LookedUpRadius(g) ==
  DISTANCE_PER_PROTECTION_TYPE[constraint.entity_type]
    [IF g.cbsd_category = "B" THEN 2 ELSE 1]

KnownInputs ==
  /\ constraint.entity_type \in ProtectedEntityType
  /\ \A i \in 1..Len(grants) : grants[i].cbsd_category \in Categories

C7_ExactlyTheGrantsInside ==
  (last = "findGrantsInsideNeighborhood" /\ KnownInputs)
  => /\ result.raised = ""
     /\ result.value =
          SelectSeq(grants, LAMBDA g : DistanceTo(g) <= LookedUpRadius(g))
     /\ calls[1].args[1] = grants

\* C7: findGrantsInsideNeighborhood returns, in input order, exactly the
\* grants whose distance to the protection point is <= the radius looked up
\* for the entity type and the grant's own category (a grant at the radius
\* is included), and the call leaves the input list as it was.
C7_NeighborhoodFilter ==
  /\ []C7_ExactlyTheGrantsInside
  /\ [][last' = "findGrantsInsideNeighborhood" => grants' = grants]_vars

\* C7 witness: of two grants, the one exactly at its radius was returned and
\* the one beyond its radius was not.
C7_Witness ==
  /\ last = "findGrantsInsideNeighborhood"
  /\ Len(grants) = 2
  /\ DistanceTo(grants[1]) > LookedUpRadius(grants[1])
  /\ DistanceTo(grants[2]) = LookedUpRadius(grants[2])
  /\ result.value = <<grants[2]>>

ReturnedByNeighborhood(g) ==
  \E j \in 1..Len(result.value) : result.value[j] = g

\* C8: the radius used for a grant is 40 km for category A and 80 km for
\* category B against the ESC type; against each other type it is the same
\* for both categories: 40 km for GWPZ, PPA and FSS blocking, 150 km for FSS
\* co-channel.
C8_RadiusPerTypeAndCategory ==
  (last = "findGrantsInsideNeighborhood" /\ KnownInputs)
  => \A i \in 1..Len(grants) :
       LET g == grants[i]
           t == constraint.entity_type
           radius == IF t = "ESC"
                     THEN (IF g.cbsd_category = "A" THEN 40 ELSE 80)
                     ELSE IF t = "FSS_CO_CHANNEL" THEN 150 ELSE 40
       IN  ReturnedByNeighborhood(g) <=> DistanceTo(g) <= radius

\* C8 witness: against an ESC point a category-A grant at 41 km was left out
\* and a category-B grant at 80 km was returned.
C8_Witness ==
  /\ last = "findGrantsInsideNeighborhood"
  /\ constraint.entity_type = "ESC"
  /\ Len(grants) = 2
  /\ grants[1].cbsd_category = "A" /\ DistanceTo(grants[1]) = 41
  /\ grants[2].cbsd_category = "B" /\ DistanceTo(grants[2]) = 80
  /\ result.value = <<grants[2]>>

\* C9: findOverlappingGrants, for a constraint of a non-ESC type, returns in
\* input order exactly the grants with
\* min(grant.high, constraint.high) - max(grant.low, constraint.low) > 0; a
\* grant that only touches the constraint's range is left out.
C9_PositiveOverlapOnly ==
  (last = "findOverlappingGrants" /\ KnownInputs
     /\ constraint.entity_type # "ESC")
  => /\ result.raised = ""
     /\ result.value =
          SelectSeq(grants, LAMBDA g : PositiveOverlap(g, constraint))

\* C9 witness: against a non-ESC constraint a grant ending where the
\* constraint starts was left out and an overlapping grant was returned.
C9_Witness ==
  /\ last = "findOverlappingGrants"
  /\ constraint.entity_type = "FSS_CO_CHANNEL"
  /\ Len(grants) = 2
  /\ grants[1].high_frequency = constraint.low_frequency
  /\ PositiveOverlap(grants[2], constraint)
  /\ result.value = <<grants[2]>>

FormulaNames ==
  {"computeInterferenceFssCochannel", "computeInterferenceFssBlocking",
   "computeInterferenceEsc", "computeInterferencePpaGwpzPoint"}

FormulaCalls == SelectSeq(calls, LAMBDA c : c.fn \in FormulaNames)

C11_UnknownTypeFails ==
  (last = "computeInterference"
     /\ calls[1].args[3].entity_type \notin ProtectedEntityType)
  => /\ result.raised # ""
     /\ FormulaCalls = <<>>

\* C12: a grant whose cbsd_category is neither 'A' nor 'B' makes
\* findGrantsInsideNeighborhood (radius lookup) and, against an ESC
\* constraint, findOverlappingGrants (frequency eligibility) raise instead
\* of returning a result.
C12_UnknownCategoryFails ==
  (/\ \/ last = "findGrantsInsideNeighborhood"
      \/ last = "findOverlappingGrants" /\ constraint.entity_type = "ESC"
   /\ constraint.entity_type \in ProtectedEntityType
   /\ \E i \in 1..Len(grants) : grants[i].cbsd_category \notin Categories)
  => result.raised # ""

ExtractionCalled == last = "getAllGrantInformationFromCbsdDataDump"

\* The height above ground of a record: as declared, or for AMSL the
\* declared height less the terrain elevation at the CBSD
HeightAboveGround(rec) ==
  LET param == rec.registrationRequest.installationParam
  IN  IF param.heightType = "AMSL"
      THEN param.height - GetTerrainElevation(param.latitude, param.longitude)
      ELSE param.height

OutOfRange(rec) ==
  HeightAboveGround(rec) < 10 \/ HeightAboveGround(rec) > 10000

\* The number of grants of the records before record i
RECURSIVE GrantsBefore(_, _)
GrantsBefore(recs, i) ==
  IF i <= 1 THEN 0 ELSE GrantsBefore(recs, i - 1) + Len(recs[i - 1].grants)

\* C13: getAllGrantInformationFromCbsdDataDump raises and returns no grant
\* list, not even the grants of earlier valid records, as soon as any
\* record's height above ground (for AMSL, declared height minus terrain
\* elevation) is < 1 m or > 1000 m; heights of exactly 1 m and 1000 m are
\* accepted, and an accepted height is stored in height_agl unclamped.
C13_HeightCheck ==
  ExtractionCalled
  => LET recs == calls[1].args[1]
     IN  IF \E i \in 1..Len(recs) : OutOfRange(recs[i])
         THEN result.raised # "" /\ result.value = <<>>
         ELSE /\ result.raised = ""
              /\ Len(result.value) = GrantsBefore(recs, Len(recs) + 1)
              /\ \A i \in 1..Len(recs) : \A j \in 1..Len(recs[i].grants) :
                   result.value[GrantsBefore(recs, i) + j].height_agl
                     = HeightAboveGround(recs[i])

\* C13 witness: a record declared at 201 m AMSL over ground at 200 m, that
\* is 1 m above ground, was accepted and the record after it, at 1000.1 m
\* above ground, made the extraction raise with nothing returned.
C13_Witness ==
  /\ ExtractionCalled
  /\ Len(sas_uut_fad) = 2
  /\ sas_uut_fad[1].registrationRequest.installationParam.heightType = "AMSL"
  /\ HeightAboveGround(sas_uut_fad[1]) = 10
  /\ HeightAboveGround(sas_uut_fad[2]) = 10001
  /\ result = [raised |-> "ValueError", value |-> <<>>]

\* C14: getAllGrantInformationFromCbsdDataDump fails with an error for any
\* grant whose lowFrequency >= highFrequency, so every CbsdGrantInformation
\* it returns satisfies low_frequency < high_frequency.
C14_FrequencyRangeChecked ==
  ExtractionCalled
  => LET recs == calls[1].args[1]
         range(g) == g.operationParam.operationFrequencyRange
     IN  /\ (\E i \in 1..Len(recs) : \E j \in 1..Len(recs[i].grants) :
               range(recs[i].grants[j]).lowFrequency
                 >= range(recs[i].grants[j]).highFrequency)
              => result.raised # ""
         /\ \A k \in 1..Len(result.value) :
              result.value[k].low_frequency < result.value[k].high_frequency

\* The calls of one function made by the last call, in order
CallsOf(fn) == SelectSeq(calls, LAMBDA c : c.fn = fn)

\* The last call was computeInterference and it invoked formula fn
FormulaInvoked(fn) ==
  /\ last = "computeInterference"
  /\ FormulaCalls # <<>>
  /\ FormulaCalls[1].fn = fn

\* The grant and the constraint of the formula call are at the same position
CoLocated ==
  /\ FormulaCalls[1].args[1].latitude = FormulaCalls[1].args[2].latitude
  /\ FormulaCalls[1].args[1].longitude = FormulaCalls[1].args[2].longitude

\* C15: computeInterferencePpaGwpzPoint, when the grant's latitude and
\* longitude both equal the constraint's, uses propagation loss 0 and
\* all-zero incidence angles and never calls the hybrid propagation model;
\* when either coordinate differs it calls the hybrid model exactly once and
\* uses its loss and angles.
C15_AreaCoLocation ==
  FormulaInvoked("computeInterferencePpaGwpzPoint")
  => LET hybrid == CallsOf("CalcHybridPropagationLoss")
         ant == CallsOf("GetStandardAntennaGains")
         eirp == CallsOf("getEffectiveSystemEirp")
     IN  /\ Len(ant) = 1 /\ Len(eirp) = 1
         /\ IF CoLocated
            THEN /\ hybrid = <<>>
                 /\ ant[1].args[1] = 0
                 /\ FormulaCalls[1].ret = DbSub(eirp[1].ret, DbConst(0))
            ELSE /\ Len(hybrid) = 1
                 /\ ant[1].args[1] = hybrid[1].ret[2].hor_cbsd
                 /\ FormulaCalls[1].ret
                      = DbSub(eirp[1].ret, DbConst(hybrid[1].ret[1]))

\* C15 witness: an area constraint at the grant's own position was evaluated
\* without a call of the hybrid model.
C15_Witness ==
  /\ FormulaInvoked("computeInterferencePpaGwpzPoint")
  /\ constraint.entity_type = "PPA_AREA"
  /\ CoLocated
  /\ CallsOf("CalcHybridPropagationLoss") = <<>>
  /\ FormulaCalls[1].ret = CallsOf("getEffectiveSystemEirp")[1].ret

\* C16: each of computeInterferenceEsc, computeInterferenceFssCochannel and
\* computeInterferenceFssBlocking, when the grant's latitude and longitude
\* equal the constraint's, uses zero propagation loss and zero incidence
\* angles and does not call the propagation model.
C16_IncumbentCoLocation ==
  (/\ \/ FormulaInvoked("computeInterferenceEsc")
      \/ FormulaInvoked("computeInterferenceFssCochannel")
      \/ FormulaInvoked("computeInterferenceFssBlocking")
   /\ CoLocated)
  => /\ CallsOf("CalcItmPropagationLoss") = <<>>
     /\ CallsOf("GetStandardAntennaGains")[1].args[1] = 0

\* The effective EIRP of the formula call: (max_eirp - nominal gain of the
\* grant) + effective gain + 10 log10(reference bandwidth / 1 MHz)
EffectiveEirp(effective_gain, reference_bandwidth) ==
  DbAdd(DbConst((FormulaCalls[1].args[4]
                   - FormulaCalls[1].args[1].antenna_gain) + effective_gain),
        LinearToDb(reference_bandwidth, MHZ))

\* What the collaborators returned to the formula call
PathLoss ==
  IF CallsOf("CalcItmPropagationLoss") # <<>>
  THEN CallsOf("CalcItmPropagationLoss")[1].ret[1]
  ELSE IF CallsOf("CalcHybridPropagationLoss") # <<>>
  THEN CallsOf("CalcHybridPropagationLoss")[1].ret[1]
  ELSE 0

TransmitGain == CallsOf("GetStandardAntennaGains")[1].ret

ReceiveGain ==
  IF CallsOf("GetAntennaPatternGains") # <<>>
  THEN CallsOf("GetAntennaPatternGains")[1].ret
  ELSE CallsOf("GetFssAntennaGains")[1].ret

\* C17: area-point = EIRP(5 MHz, transmit gain) - loss; sensor and satellite
\* co-channel = EIRP(5 MHz, transmit gain + receive gain) - loss - 0.5 dB;
\* satellite blocking = EIRP(grant.high_frequency - grant.low_frequency,
\* transmit gain + receive gain) - loss - getFssMaskLoss(grant, constraint);
\* EIRP = (max_eirp - grant nominal antenna gain) + effective gain
\* + 10 log10(reference bandwidth / 1 MHz).
C17_FormulaTerms ==
  last = "computeInterference"
  => LET f == FormulaCalls[1]
         g == f.args[1]
         loss == DbConst(PathLoss)
     IN  /\ f.fn = "computeInterferencePpaGwpzPoint"
              => f.ret = DbSub(EffectiveEirp(TransmitGain, 5 * MHZ), loss)
         /\ f.fn \in {"computeInterferenceEsc",
                       "computeInterferenceFssCochannel"}
              => f.ret = DbSub(DbSub(EffectiveEirp(TransmitGain + ReceiveGain,
                                                   5 * MHZ), loss),
                               DbConst(5))
         /\ f.fn = "computeInterferenceFssBlocking"
              => /\ CallsOf("getFssMaskLoss")[1].args = <<g, f.args[2]>>
                 /\ f.ret
                      = DbSub(DbSub(EffectiveEirp(TransmitGain + ReceiveGain,
                                      g.high_frequency - g.low_frequency),
                                    loss),
                              CallsOf("getFssMaskLoss")[1].ret)

\* C17 witness: a blocking constraint was evaluated for a 20 MHz grant, with
\* the 20 MHz bandwidth term and a two-term mask loss in the result.
C17_Witness ==
  /\ FormulaInvoked("computeInterferenceFssBlocking")
  /\ FormulaCalls[1].args[1].high_frequency
       - FormulaCalls[1].args[1].low_frequency = 20 * MHZ
  /\ CallsOf("getEffectiveSystemEirp")[1].args[4] = 20 * MHZ
  /\ Len(CallsOf("getFssMaskLoss")[1].ret.logs) = 2
  /\ Len(FormulaCalls[1].ret.logs) = 3

\* The eirp values the monotonicity of computeInterference is compared over
EirpValues == {-50, 200, 300, 305}

\* a <= b for two linear values 10^(x/10): 10^ is increasing, so the order
\* is that of the exponents, which are comparable when they carry the same
\* logarithm terms
LinearLeq(a, b) ==
  /\ a.base = b.base
  /\ a.exponent_times_10.logs = b.exponent_times_10.logs
  /\ a.exponent_times_10.tenths <= b.exponent_times_10.tenths

\* computeInterference on the arguments of the last call with eirp replaced
WithEirp(eirp, env) ==
  ComputeInterference(calls[1].args[1], eirp, calls[1].args[3],
                      calls[1].args[4], calls[1].args[5], calls[1].args[6],
                      env)

\* env is what the collaborators returned to the last call
ReturnedToLastCall(env) ==
  /\ WithEirp(calls[1].args[2], env).calls = Tail(calls)
  /\ WithEirp(calls[1].args[2], env).value = result.value

\* C18: computeInterference is monotonically non-decreasing in its eirp
\* argument: for every entity type, fixed grant, constraint and incumbent
\* record and fixed collaborator outputs, eirp1 <= eirp2 implies
\* computeInterference(..., eirp1, ...) <= computeInterference(..., eirp2, ...).
C18_MonotonicInEirp ==
  last = "computeInterference"
  => \A env \in CollaboratorOutputs : \A eirp2 \in EirpValues :
       ReturnedToLastCall(env)
       => /\ calls[1].args[2] <= eirp2
               => LinearLeq(result.value, WithEirp(eirp2, env).value)
          /\ eirp2 <= calls[1].args[2]
               => LinearLeq(WithEirp(eirp2, env).value, result.value)

\* C18 witness: a blocking constraint was evaluated at 20 dBm and the same
\* call at 30 dBm yields an exponent 10 dB higher.
C18_Witness ==
  /\ FormulaInvoked("computeInterferenceFssBlocking")
  /\ calls[1].args[2] = 200
  /\ \E env \in CollaboratorOutputs :
       /\ ReturnedToLastCall(env)
       /\ WithEirp(300, env).value.exponent_times_10.tenths
            = result.value.exponent_times_10.tenths + 100

\* What the collaborators returned to the last call, in call order
CollaboratorReturns ==
  LET made == SelectSeq(calls, LAMBDA c :
                c.fn \in {"CalcItmPropagationLoss", "CalcHybridPropagationLoss",
                          "GetStandardAntennaGains", "GetAntennaPatternGains",
                          "GetFssAntennaGains", "GeodesicDistanceBearing"})
  IN  [k \in 1..Len(made) |-> made[k].ret]

EngineFunctions ==
  {"getProtectedChannels", "findGrantsInsideNeighborhood",
   "findOverlappingGrants", "getFssMaskLoss", "computeInterference"}

\* A call of the engine leaves its arguments and the module-level table as
\* they were, and a call repeated on the inputs of the call before it
\* returns what that call returned
NoStateStep ==
  last' \in EngineFunctions
  => /\ grants' = grants
     /\ constraint' = constraint
     /\ distTable' = distTable
     /\ (/\ last = last'
         /\ calls[1].args = calls'[1].args
         /\ CollaboratorReturns = CollaboratorReturns')
        => result' = result

RECURSIVE PeerRecords(_)
PeerRecords(fads) ==
  IF fads = <<>> THEN <<>> ELSE Head(fads) \o PeerRecords(Tail(fads))

\* value holds, for each record of recs in order and each of its grants in
\* order, one CbsdGrantInformation of that record and grant, managed for
\* the first uut records and not managed for the others
GrantsOfRecordsInOrder(value, recs, uut) ==
  /\ Len(value) = GrantsBefore(recs, Len(recs) + 1)
  /\ \A i \in 1..Len(recs) : \A j \in 1..Len(recs[i].grants) :
       LET g == value[GrantsBefore(recs, i) + j]
           range == recs[i].grants[j].operationParam.operationFrequencyRange
       IN  /\ g.latitude = recs[i].registrationRequest.installationParam.latitude
           /\ g.low_frequency = range.lowFrequency
           /\ g.high_frequency = range.highFrequency
           /\ g.is_managed_grant = (i <= uut)

FadCalled ==
  /\ last = "getGrantObjectsFromFAD"
  /\ \A i \in 1..Len(sas_uut_fad) : ~OutOfRange(sas_uut_fad[i])
  /\ \A i \in 1..Len(PeerRecords(sas_th_fads)) :
       ~OutOfRange(PeerRecords(sas_th_fads)[i])

\* C20: getGrantObjectsFromFAD, for one UUT record store and any list of
\* test-harness record stores, an empty list and stores without CBSD records
\* included, returns the grants of the UUT records (is_managed_grant = True)
\* followed by the grants of every peer record (is_managed_grant = False),
\* each (CBSD record, grant) pair exactly once and in record order.
C20_UutThenPeers ==
  FadCalled
  => /\ result.raised = ""
     /\ GrantsOfRecordsInOrder(result.value,
                               sas_uut_fad \o PeerRecords(sas_th_fads),
                               Len(sas_uut_fad))

\* What holds of getGrantObjectsFromFAD once some test-harness store holds a
\* CBSD record: the result is as C20 says.
FadGrantsWithPeerRecord ==
  (FadCalled /\ PeerRecords(sas_th_fads) # <<>>)
  => /\ result.raised = ""
     /\ GrantsOfRecordsInOrder(result.value,
                               sas_uut_fad \o PeerRecords(sas_th_fads),
                               Len(sas_uut_fad))

====
